---- MODULE Spec2Model ----
(***************************************************************************)
(* Model of app/main.py: the SAP Note 3320010 CO-PA assessment service.    *)
(*                                                                         *)
(*   summarize_copa          the rule scanner (pure function)              *)
(*   llm_assess_and_prompt   scanner + prompt inputs + chain.invoke        *)
(*   assess_copa             the POST /assess-copa-3320010 handler         *)
(*                                                                         *)
(* Text is a sequence of one-character strings, so that str.upper() and    *)
(* the `in` substring test are computed character by character.  A JSON    *)
(* value is a tagged record [t, v].                                        *)
(***************************************************************************)
EXTENDS Integers, Sequences, FiniteSets, TLC

VARIABLES
    unit,           \* summarize_copa: the argument of the call under study
    plan,           \* summarize_copa: the returned dict, NoPlan before the call
    variant,        \* a second argument, equal to unit up to letter case
    variantPlan,    \* summarize_copa(variant), NoPlan before the call
    units,          \* assess_copa: the request body
    pc,             \* assess_copa: "idle", "loop" or "responded"
    i,              \* assess_copa: position of `for u in units`, from 1
    out,            \* assess_copa: the local list `out`
    calls,          \* the chain.invoke calls of the request, oldest first
    replies,        \* the outcome of each of those calls
    response        \* what the HTTP client receives

vars == <<unit, plan, variant, variantPlan, units, pc, i, out, calls, replies, response>>

scanVars == <<unit, plan, variant, variantPlan>>

handlerVars == <<units, pc, i, out, calls, replies, response>>

-----------------------------------------------------------------------------
(* Bounds *)

MaxFrags == 3       \* fragments per scanned unit, over all its statements
MaxUsage == 2       \* CopaUsage records per scanned unit
MaxUnits == 2       \* units per request

-----------------------------------------------------------------------------
(* Text *)

LowerLetters == <<"a","b","c","d","e","f","g","h","i","j","k","l","m","n","o","p","q","r","s","t","u","v","w","x","y","z">>

UpperLetters == <<"A","B","C","D","E","F","G","H","I","J","K","L","M","N","O","P","Q","R","S","T","U","V","W","X","Y","Z">>

IsLower(c) == \E k \in 1..26 : LowerLetters[k] = c

IsUpper(c) == \E k \in 1..26 : UpperLetters[k] = c

LetterIndex(letters, c) == CHOOSE k \in 1..26 : letters[k] = c

\* the characters of the statements: ASCII letters and a few others
Chars == {LowerLetters[k] : k \in 1..26} \cup {UpperLetters[k] : k \in 1..26} \cup {" ", ".", "_", "2"}

\* str.upper() on each character
UpperTable == [c \in Chars |-> IF IsLower(c) THEN UpperLetters[LetterIndex(LowerLetters, c)] ELSE c]

\* str.upper() on one character
UpperChar(c) == UpperTable[c]

\* the identity, standing for a scanner that forgets .upper()
UpperIdentity(text) == text

\* str.upper()
Upper(text) == [k \in 1..Len(text) |-> UpperChar(text[k])]

\* needle in hay
Contains(hay, needle) ==
    \E s \in 0..(Len(hay) - Len(needle)) :
        \A j \in 1..Len(needle) : hay[s + j] = needle[j]

KW_IS_INITIAL == <<"I","S"," ","I","N","I","T","I","A","L">>

KW_IS_NOT_INITIAL == <<"I","S"," ","N","O","T"," ","I","N","I","T","I","A","L">>

KW_RKEOBJNR == <<"R","K","E","O","B","J","N","R">>

KW_PROFSEG == <<"P","R","O","F","I","T","A","B","I","L","I","T","Y","S","E","G","M","E","N","T">>

KW_PROFSEG_2 == <<"P","R","O","F","I","T","A","B","I","L","I","T","Y","S","E","G","M","E","N","T","_","2">>

-----------------------------------------------------------------------------
(* Models *)

\* class CopaUsage
CopaUsage(stmt) ==
    [table               |-> "CE1",
     target_type         |-> "field",
     target_name         |-> "RKEOBJNR",
     used_fields         |-> <<"RKEOBJNR">>,
     suggested_fields    |-> <<"RKEOBJNR">>,
     suggested_statement |-> stmt,
     snippet             |-> "None"]

\* class Unit
Unit(pgm, inc, typ, nam, usage) ==
    [pgm_name |-> pgm, inc_name |-> inc, type |-> typ, name |-> nam, copa_usage |-> usage]

-----------------------------------------------------------------------------
(* summarize_copa *)

InitialCheckFinding ==
    [issue  |-> "Initial value check on RKEOBJNR/ProfitabilitySegment",
     reason |-> "Must replace with cl_fco_copa_paobjnr=>is_initial( ) per SAP Note 3320010"]

OldCdsFinding ==
    [issue  |-> "Old CDS field ProfitabilitySegment used",
     reason |-> "Replace with ProfitabilitySegment_2 per SAP Note 3320010"]

\* the first check of the loop body, the IS NOT INITIAL alternative lost
InitialCheckNoNot(stmt_upper) ==
    IF Contains(stmt_upper, KW_IS_INITIAL)
    THEN IF Contains(stmt_upper, KW_RKEOBJNR) \/ Contains(stmt_upper, KW_PROFSEG)
         THEN <<InitialCheckFinding>>
         ELSE <<>>
    ELSE <<>>

\* the first check of the loop body: what it appends to `flagged`
InitialCheck(stmt_upper) ==
    IF Contains(stmt_upper, KW_IS_INITIAL) \/ Contains(stmt_upper, KW_IS_NOT_INITIAL)
    THEN IF Contains(stmt_upper, KW_RKEOBJNR) \/ Contains(stmt_upper, KW_PROFSEG)
         THEN <<InitialCheckFinding>>
         ELSE <<>>
    ELSE <<>>

\* the second check of the loop body, the _2 exclusion lost
OldCdsCheckNoExclusion(stmt_upper) ==
    IF Contains(stmt_upper, KW_PROFSEG)
    THEN <<OldCdsFinding>>
    ELSE <<>>

\* the second check of the loop body: what it appends to `flagged`
OldCdsCheck(stmt_upper) ==
    IF Contains(stmt_upper, KW_PROFSEG) /\ ~Contains(stmt_upper, KW_PROFSEG_2)
    THEN <<OldCdsFinding>>
    ELSE <<>>

\* one iteration of the loop, the second check made the elif of the first
ScanUsageElif(usage) ==
    LET stmt_upper == Upper(usage.suggested_statement)
    IN  IF InitialCheck(stmt_upper) # <<>>
        THEN InitialCheck(stmt_upper)
        ELSE OldCdsCheck(stmt_upper)

\* one iteration of the loop, the statement not uppercased
ScanUsageNoUpper(usage) ==
    LET stmt_upper == UpperIdentity(usage.suggested_statement)
    IN  InitialCheck(stmt_upper) \o OldCdsCheck(stmt_upper)

\* one iteration of `for usage in unit.copa_usage`: what it appends to `flagged`
ScanUsage(usage) ==
    LET stmt_upper == Upper(usage.suggested_statement)
    IN  InitialCheck(stmt_upper) \o OldCdsCheck(stmt_upper)

RECURSIVE Flagged(_)
\* the list `flagged` after the loop over the usage list
Flagged(usages) ==
    IF usages = <<>> THEN <<>>
    ELSE Flagged(SubSeq(usages, 1, Len(usages) - 1)) \o ScanUsage(usages[Len(usages)])

\* summarize_copa
summarize_copa(u) ==
    [program   |-> u.pgm_name,
     include   |-> u.inc_name,
     unit_type |-> u.type,
     unit_name |-> u.name,
     flags     |-> Flagged(u.copa_usage)]

-----------------------------------------------------------------------------
(* The scanner on its own: a unit is drawn, then summarize_copa is applied *)
(* to it and to a copy whose statements differ in letter case only.        *)

FragIfRke == <<"I","F"," ","R","K","E","O","B","J","N","R">>

FragProfSeg == <<" ","P","r","o","f","i","t","a","b","i","l","i","t","y","S","e","g","m","e","n","t">>

FragProfSeg2 == <<" ","P","r","o","f","i","t","a","b","i","l","i","t","y","S","e","g","m","e","n","t","_","2">>

FragIsInitial == <<" ","I","S"," ","I","N","I","T","I","A","L",".">>

FragIsNotInitial == <<" ","i","s"," ","n","o","t"," ","i","n","i","t","i","a","l",".">>

Fragments == {FragIfRke, FragProfSeg, FragProfSeg2, FragIsInitial, FragIsNotInitial}

RECURSIVE Stmts(_)
\* the statements made of at most n fragments, each with its fragment count
Stmts(n) ==
    IF n = 0 THEN {[text |-> <<>>, frags |-> 0]}
    ELSE Stmts(n - 1) \cup
         {[text |-> s.text \o f, frags |-> n] : s \in {x \in Stmts(n - 1) : x.frags = n - 1}, f \in Fragments}

\* Stmts, computed once for each fragment count
StmtsUpTo == [n \in 0..MaxFrags |-> Stmts(n)]

RECURSIVE UsageLists(_, _)
\* the usage lists of at most n records and at most t fragments in all, each
\* with its fragment count
UsageLists(n, t) ==
    IF n = 0 THEN {[usage |-> <<>>, frags |-> 0]}
    ELSE LET shorter == UsageLists(n - 1, t)
         IN  shorter \cup
             UNION {{[usage |-> Append(l.usage, CopaUsage(s.text)), frags |-> l.frags + s.frags] :
                        s \in StmtsUpTo[t - l.frags]} :
                    l \in {x \in shorter : Len(x.usage) = n - 1}}

ScanUnits == {Unit("ZP1", "ZI1", "FORM", "F1", l.usage) : l \in UsageLists(MaxUsage, MaxFrags)}

CaseKinds == {"lower", "upper", "swap", "alternate"}

LowerTable == [c \in Chars |-> IF IsUpper(c) THEN LowerLetters[LetterIndex(UpperLetters, c)] ELSE c]

LowerChar(c) == LowerTable[c]

SwapChar(c) == IF LowerTable[c] = c THEN UpperTable[c] ELSE LowerTable[c]

\* text with the letter case changed, nothing else
Recase(text, kind) ==
    [k \in 1..Len(text) |->
        CASE kind = "lower"     -> LowerChar(text[k])
          [] kind = "upper"     -> UpperChar(text[k])
          [] kind = "swap"      -> SwapChar(text[k])
          [] kind = "alternate" -> IF k % 2 = 0 THEN SwapChar(text[k]) ELSE text[k]]

RecaseUnit(u, kind) ==
    [u EXCEPT !.copa_usage =
        [k \in 1..Len(u.copa_usage) |->
            [u.copa_usage[k] EXCEPT !.suggested_statement = Recase(@, kind)]]]

NoPlan == [program |-> "", include |-> "", unit_type |-> "", unit_name |-> "", flags |-> <<>>]

NoResponse == [status |-> 0, body |-> <<>>, detail |-> <<>>]

HandlerIdle ==
    /\ units = <<>>
    /\ pc = "idle"
    /\ i = 1
    /\ out = <<>>
    /\ calls = <<>>
    /\ replies = <<>>
    /\ response = NoResponse

InitScan ==
    /\ unit \in ScanUnits
    /\ plan = NoPlan
    /\ variant = unit
    /\ variantPlan = NoPlan
    /\ HandlerIdle

\* plan = summarize_copa(unit)
Scan ==
    /\ plan = NoPlan
    /\ plan' = summarize_copa(unit)
    /\ UNCHANGED <<unit, variant, variantPlan>>
    /\ UNCHANGED handlerVars

\* summarize_copa on the same unit in another letter case
ScanVariant(kind) ==
    /\ plan # NoPlan
    /\ variantPlan = NoPlan
    /\ variant' = RecaseUnit(unit, kind)
    /\ variantPlan' = summarize_copa(variant')
    /\ UNCHANGED <<unit, plan>>
    /\ UNCHANGED handlerVars

NextScan ==
    \/ Scan
    \/ \E kind \in CaseKinds : ScanVariant(kind)

SpecScan == InitScan /\ [][NextScan]_vars

-----------------------------------------------------------------------------
(* JSON values and Python dicts *)

JStr(s) == [t |-> "string", v |-> s]

JNum(n) == [t |-> "number", v |-> n]

JNull == [t |-> "null", v |-> "null"]

JArr == [t |-> "array", v |-> "[]"]

\* a JSON object; fields is a function from its keys to JSON values
JObj(fields) == [t |-> "object", v |-> fields]

\* dict.get(key, default)
DictGet(d, key, default) == IF key \in DOMAIN d THEN d[key] ELSE default

\* d[key] = val
DictSet(d, key, val) == [k \in DOMAIN d \cup {key} |-> IF k = key THEN val ELSE d[k]]

\* dict.pop that removes nothing
DictPopNothing(d, key) == d

\* d.pop(key, None)
DictPop(d, key) == [k \in DOMAIN d \ {key} |-> d[k]]

\* list.insert(0, x)
ListPrepend(l, x) == <<x>> \o l

\* list.append(x)
ListAppend(l, x) == Append(l, x)

\* u.model_dump(): a new dict of the unit's fields, nested models dumped too
model_dump(u) ==
    [pgm_name   |-> u.pgm_name,
     inc_name   |-> u.inc_name,
     type       |-> u.type,
     name       |-> u.name,
     copa_usage |-> u.copa_usage]

-----------------------------------------------------------------------------
(* chain.invoke: what prompt | llm | parser can do with one call *)

ExcMessages == {"Connection error.", "Invalid json output"}

\* chain.invoke raised e
Raised(msg) == [kind |-> "raise", value |-> JNull, msg |-> msg]

\* chain.invoke returned what JsonOutputParser parsed
Returned(val) == [kind |-> "return", value |-> val, msg |-> ""]

Absent == [t |-> "absent", v |-> ""]

AssessmentValues == {Absent, JStr("RKEOBJNR is checked with IS NOT INITIAL"), JNum("5")}

PromptValues == {Absent, JStr("Replace the check by cl_fco_copa_paobjnr=>is_initial( )"), JNull}

\* the reply object holding the fields that are not Absent
ReplyObject(a, p) ==
    JObj([k \in {x \in {"assessment"} : a # Absent} \cup {x \in {"llm_prompt"} : p # Absent} |->
            IF k = "assessment" THEN a ELSE p])

ReplyObjects == {ReplyObject(a, p) : a \in AssessmentValues, p \in PromptValues}

\* valid JSON that is not an object
ReplyNonObjects == {JArr, JStr("The unit is affected."), JNum("0"), JNull}

Outcomes ==
    {Raised(m) : m \in ExcMessages} \cup {Returned(val) : val \in ReplyObjects \cup ReplyNonObjects}

IsObjectReply(r) == r.kind = "return" /\ r.value.t = "object"

-----------------------------------------------------------------------------
(* llm_assess_and_prompt and assess_copa *)

StmtExample == <<"I","F"," ","R","K","E","O","B","J","N","R"," ","I","S"," ","I","N","I","T","I","A","L",".">>

StmtExample2 == <<"I","F"," ","R","K","E","O","B","J","N","R"," ","I","S"," ","N","O","T"," ","I","N","I","T","I","A","L",".">>

UnitPool ==
    {Unit("ZP1", "ZI1", "FORM", "F1", <<CopaUsage(StmtExample2)>>),
     Unit("ZP2", "ZI2", "METH", "M1", <<>>),
     Unit("ZP3", "ZI3", "FUNC", "FM1", <<CopaUsage(FragProfSeg \o FragIsInitial), CopaUsage(FragProfSeg2)>>)}

RECURSIVE Batches(_)
\* the request bodies of at most n units
Batches(n) ==
    IF n = 0 THEN {<<>>}
    ELSE Batches(n - 1) \cup
         {Append(b, u) : b \in {x \in Batches(n - 1) : Len(x) = n - 1}, u \in UnitPool}

\* the dict handed to chain.invoke; the two json.dumps texts are kept as the
\* values they serialise
ChainInput(u) ==
    [pgm_name  |-> u.pgm_name,
     inc_name  |-> u.inc_name,
     unit_type |-> u.type,
     unit_name |-> u.name,
     plan_json |-> summarize_copa(u),
     copa_json |-> [k \in 1..Len(u.copa_usage) |-> u.copa_usage[k]]]

\* HTTPException(status_code=502, detail=f"LLM call failed: {e}")
UpstreamFailure(msg) == [status |-> 502, body |-> <<>>, detail |-> <<"LLM call failed: ", msg>>]

\* an exception nobody handles: the framework answers 500
InternalError == [status |-> 500, body |-> <<>>, detail |-> <<"Internal Server Error">>]

\* the loop body after llm_assess_and_prompt returned llm_out
OutputRecord(u, llm_out) ==
    LET obj0 == model_dump(u)
        obj1 == DictSet(obj0, "assessment", DictGet(llm_out, "assessment", JStr("")))
        obj2 == DictSet(obj1, "llm_prompt", DictGet(llm_out, "llm_prompt", JStr("")))
    IN  DictPop(obj2, "copa_usage")

\* the request body arrives; out = []
Receive(batch) ==
    /\ pc = "idle"
    /\ units' = batch
    /\ pc' = "loop"
    /\ i' = 1
    /\ out' = <<>>
    /\ calls' = <<>>
    /\ replies' = <<>>
    /\ response' = NoResponse
    /\ UNCHANGED scanVars

\* the except branch swallowing the error and going on with the next unit
OnRaiseContinue(r) ==
    /\ pc' = "loop"
    /\ i' = i + 1
    /\ UNCHANGED <<out, response>>

\* chain.invoke raised: except Exception -> HTTPException(502), out of the loop
OnRaise(r) ==
    /\ pc' = "responded"
    /\ response' = UpstreamFailure(r.msg)
    /\ UNCHANGED <<i, out>>

\* chain.invoke returned something without .get: AttributeError, out of the loop
OnNonObject(r) ==
    /\ pc' = "responded"
    /\ response' = InternalError
    /\ UNCHANGED <<i, out>>

\* chain.invoke returned a dict: the record is appended and the loop goes on
OnObject(u, r) ==
    /\ out' = ListAppend(out, OutputRecord(u, r.value.v))
    /\ i' = i + 1
    /\ UNCHANGED <<pc, response>>

\* one iteration of `for u in units`, chain.invoke answering with outcome r
Iterate(r) ==
    /\ pc = "loop"
    /\ i <= Len(units)
    /\ calls' = Append(calls, [unit_index |-> i, args |-> ChainInput(units[i])])
    /\ replies' = Append(replies, r)
    /\ CASE r.kind = "raise"        -> OnRaise(r)
         [] r.value.t # "object"    -> OnNonObject(r)
         [] OTHER                   -> OnObject(units[i], r)
    /\ UNCHANGED units
    /\ UNCHANGED scanVars

\* return out
Return ==
    /\ pc = "loop"
    /\ i > Len(units)
    /\ pc' = "responded"
    /\ response' = [status |-> 200, body |-> out, detail |-> <<>>]
    /\ UNCHANGED <<units, i, out, calls, replies>>
    /\ UNCHANGED scanVars

Init ==
    /\ unit = Unit("ZP1", "ZI1", "FORM", "F1", <<>>)
    /\ plan = NoPlan
    /\ variant = unit
    /\ variantPlan = NoPlan
    /\ HandlerIdle

Next ==
    \/ \E batch \in Batches(MaxUnits) : Receive(batch)
    \/ \E r \in Outcomes : Iterate(r)
    \/ Return

Spec == Init /\ [][Next]_vars

-----------------------------------------------------------------------------
(* Properties of assess_copa, checked under Spec *)

OutputKeys == {"pgm_name", "inc_name", "type", "name", "assessment", "llm_prompt"}

\* record rec carries the four identifying fields of unit u
SameIdentity(rec, u) ==
    /\ rec.pgm_name = u.pgm_name
    /\ rec.inc_name = u.inc_name
    /\ rec.type = u.type
    /\ rec.name = u.name

\* the reply could not be parsed as JSON, or was parsed to something that is
\* not an object
BadReply(r) ==
    \/ r.kind = "raise" /\ r.msg = "Invalid json output"
    \/ r.kind = "return" /\ r.value.t # "object"

\* C1: when every Client call of the request returned a JSON object, the
\* request is answered with a batch as long as the input, and its k-th record
\* carries pgm_name, inc_name, type and name of the k-th input unit.
C1_OrderPreserved ==
    (pc = "responded" /\ \A k \in 1..Len(replies) : IsObjectReply(replies[k]))
        => /\ response.status = 200
           /\ Len(response.body) = Len(units)
           /\ \A k \in 1..Len(units) : SameIdentity(response.body[k], units[k])

\* a request of two different units answered with a batch
C1_Witness ==
    /\ pc = "responded"
    /\ response.status = 200
    /\ Len(units) = 2
    /\ units[1] # units[2]
    /\ Len(response.body) = 2

\* C2: when the Client call fails for some unit (it raises, or its reply is
\* not a JSON object), the request ends with one 502 and no record at all.
C2_AllOrNothing502 ==
    (pc = "responded" /\ \E k \in 1..Len(replies) : ~IsObjectReply(replies[k]))
        => /\ response.status = 502
           /\ response.body = <<>>

\* C3: a reply that does not parse as a JSON object (unparsable text, or valid
\* JSON that is an array, a string, a number or null) ends the request with
\* HTTP 502 and with no other error.
C3_BadReplyIs502 ==
    (pc = "responded" /\ Len(replies) > 0 /\ BadReply(replies[Len(replies)]))
        => response.status = 502

\* C4: in every record built from a reply object, assessment and llm_prompt
\* equal the reply's field when it is present and a string, and "" otherwise.
C4_FieldsAreStrings ==
    \A k \in 1..Len(out) :
        \A f \in {"assessment", "llm_prompt"} :
            LET reply == replies[k].value.v
            IN  out[k][f] = IF f \in DOMAIN reply /\ reply[f].t = "string"
                            THEN reply[f]
                            ELSE JStr("")

\* the records of state-level list l have the six output keys and the
\* identity of the units at the same positions
WellShaped(l, us) ==
    \A k \in 1..Len(l) :
        /\ DOMAIN l[k] = OutputKeys
        /\ SameIdentity(l[k], us[k])

\* C9: every record the handler builds or returns has exactly the keys
\* pgm_name, inc_name, type, name, assessment and llm_prompt (so no
\* copa_usage), the first four with the values of its input unit; and no step
\* of the loop changes the input units.
C9_RecordShape ==
    [][ /\ (pc = "loop" => units' = units)
        /\ WellShaped(out', units')
        /\ WellShaped(response'.body, units') ]_vars

\* a unit that has usage records was turned into a returned record
C9_Witness ==
    /\ pc = "responded"
    /\ response.status = 200
    /\ Len(response.body) >= 1
    /\ units[1].copa_usage # <<>>

\* C10: the Client calls of a request are the calls for units 1, 2, ... in
\* that order, one per unit; every call but the last returned a JSON object
\* (so a failed call is the last call of the request: not retried, and no call
\* for a later unit).
C10_CallsInOrder ==
    /\ Len(calls) <= Len(units)
    /\ Len(replies) = Len(calls)
    /\ \A j \in 1..Len(calls) :
        /\ calls[j].unit_index = j
        /\ calls[j].args = ChainInput(units[j])
    /\ \A j \in 1..(Len(calls) - 1) : IsObjectReply(replies[j])
    /\ (pc = "responded" /\ response.status = 200) => Len(calls) = Len(units)

\* the call for the first of two units raised and the request is over
C10_Witness ==
    /\ pc = "responded"
    /\ Len(units) = 2
    /\ Len(calls) = 1
    /\ replies[1].kind = "raise"
    /\ response.status = 502

-----------------------------------------------------------------------------
(* Properties of summarize_copa, checked under SpecScan *)

InitialCheckIssue == "Initial value check on RKEOBJNR/ProfitabilitySegment"

OldCdsIssue == "Old CDS field ProfitabilitySegment used"

\* how many findings of the list carry the issue
CountIssue(flags, issue) == Cardinality({k \in 1..Len(flags) : flags[k].issue = issue})

\* the uppercased statement has an initial-value check on one of the two fields
InitialCheckFires(stmt) ==
    LET up == Upper(stmt)
    IN  /\ Contains(up, KW_IS_INITIAL) \/ Contains(up, KW_IS_NOT_INITIAL)
        /\ Contains(up, KW_RKEOBJNR) \/ Contains(up, KW_PROFSEG)

\* the uppercased statement names the old field and nowhere the new one
OldCdsFires(stmt) ==
    LET up == Upper(stmt)
    IN  Contains(up, KW_PROFSEG) /\ ~Contains(up, KW_PROFSEG_2)

\* C5: the findings of a unit hold the initial-value-check finding once for
\* each record whose statement fires the first check and for no other record;
\* the one-record unit "IF RKEOBJNR IS INITIAL." has exactly that one finding.
C5_InitialCheckFinding ==
    plan # NoPlan =>
        /\ CountIssue(plan.flags, InitialCheckIssue) =
             Cardinality({k \in 1..Len(unit.copa_usage) :
                             InitialCheckFires(unit.copa_usage[k].suggested_statement)})
        /\ (unit.copa_usage = <<CopaUsage(StmtExample)>>
               => /\ Len(plan.flags) = 1
                  /\ plan.flags[1].issue = InitialCheckIssue)

\* the unit of the example has been scanned
C5_Witness ==
    /\ plan # NoPlan
    /\ unit.copa_usage = <<CopaUsage(StmtExample)>>
    /\ plan.flags = <<InitialCheckFinding>>

\* C6: the findings of a unit hold the old-CDS-field finding once for each
\* record whose statement contains PROFITABILITYSEGMENT and not
\* PROFITABILITYSEGMENT_2, and for no other record; when every record
\* contains ProfitabilitySegment_2 the finding is absent.
C6_OldCdsFinding ==
    plan # NoPlan =>
        /\ CountIssue(plan.flags, OldCdsIssue) =
             Cardinality({k \in 1..Len(unit.copa_usage) :
                             OldCdsFires(unit.copa_usage[k].suggested_statement)})
        /\ ((\A k \in 1..Len(unit.copa_usage) :
                Contains(Upper(unit.copa_usage[k].suggested_statement), KW_PROFSEG_2))
               => CountIssue(plan.flags, OldCdsIssue) = 0)

\* a record naming both the old and the new field, then one naming the old
\* field only: one finding, from the second record
C6_Witness ==
    /\ plan # NoPlan
    /\ unit.copa_usage = <<CopaUsage(FragProfSeg \o FragProfSeg2), CopaUsage(FragProfSeg)>>
    /\ plan.flags = <<OldCdsFinding>>

RECURSIVE ExpectedFlags(_)
\* record by record: the first finding if the first check fires, then the
\* second finding if the second check fires
ExpectedFlags(usages) ==
    IF usages = <<>> THEN <<>>
    ELSE (IF InitialCheckFires(Head(usages).suggested_statement) THEN <<InitialCheckFinding>> ELSE <<>>)
         \o (IF OldCdsFires(Head(usages).suggested_statement) THEN <<OldCdsFinding>> ELSE <<>>)
         \o ExpectedFlags(Tail(usages))

\* C7: the two checks fire independently: the findings of a unit are, record
\* by record, the first finding (if its check fires) followed by the second
\* (if its check fires); so between 0 and 2 findings per record, two for a
\* record that fires both, and none for an empty usage list.
C7_IndependentChecks ==
    plan # NoPlan =>
        /\ plan.flags = ExpectedFlags(unit.copa_usage)
        /\ Len(plan.flags) <= 2 * Len(unit.copa_usage)
        /\ (unit.copa_usage = <<>> => plan.flags = <<>>)

\* a record that fires both checks gave two findings, in that order
C7_Witness ==
    /\ plan # NoPlan
    /\ unit.copa_usage = <<CopaUsage(FragProfSeg \o FragIsInitial)>>
    /\ plan.flags = <<InitialCheckFinding, OldCdsFinding>>

\* the same character, or the same letter in the other case
SameLetter(a, b) ==
    \/ a = b
    \/ \E k \in 1..26 : {a, b} = {LowerLetters[k], UpperLetters[k]}

\* two units that differ in the letter case of their statements at most
DifferInCaseOnly(u, w) ==
    /\ Len(u.copa_usage) = Len(w.copa_usage)
    /\ \A k \in 1..Len(u.copa_usage) :
        LET a == u.copa_usage[k].suggested_statement
            b == w.copa_usage[k].suggested_statement
        IN  /\ [u.copa_usage[k] EXCEPT !.suggested_statement = <<>>]
                 = [w.copa_usage[k] EXCEPT !.suggested_statement = <<>>]
            /\ Len(a) = Len(b)
            /\ \A c \in 1..Len(a) : SameLetter(a[c], b[c])
    /\ [u EXCEPT !.copa_usage = <<>>] = [w EXCEPT !.copa_usage = <<>>]

\* C8: two units that differ only in the letter case of their statements get
\* the same result from summarize_copa.
C8_CaseInsensitive ==
    (plan # NoPlan /\ variantPlan # NoPlan /\ DifferInCaseOnly(unit, variant))
        => variantPlan = plan

\* the lowercase form of the example statement gave the same finding
C8_Witness ==
    /\ plan # NoPlan
    /\ variantPlan # NoPlan
    /\ unit.copa_usage = <<CopaUsage(StmtExample)>>
    /\ variant.copa_usage = <<CopaUsage(Recase(StmtExample, "lower"))>>
    /\ variant # unit
    /\ variantPlan.flags = <<InitialCheckFinding>>

====
